---- MODULE Spec2Model ----
(***************************************************************************)
(* Model of src/rtsp/gst.rs: the GstOutputs stream sink (stream_recv,      *)
(* set_format, apply_format, write_last_iframe, set_input_source), the     *)
(* media-configure callback of RtspServer::add_stream that hands the live  *)
(* element handles over, and RtspServer::add_permitted_roles.              *)
(*                                                                         *)
(* MaybeAppSrc and MaybeInputSelect (mod maybe_app_src, maybe_inputselect) *)
(* are declared in gst.rs but their bodies are in other files; they are    *)
(* modelled from the specification (sections 4.3, 5 and 9): a single-slot  *)
(* latest-value-wins cell fed by a channel.                                *)
(***************************************************************************)
EXTENDS Integers, Sequences, FiniteSets, TLC

VARIABLES
    video_format,     \* GstOutputs.video_format : Option<StreamFormat>
    audio_format,     \* GstOutputs.audio_format : Option<StreamFormat>
    last_iframe,      \* GstOutputs.last_iframe  : Option<Vec<u8>>
    state,            \* GstOutputs.state        : Option<States>
    launch,           \* the launch string installed in GstOutputs.factory
    vidsrc,           \* GstOutputs.vidsrc : MaybeAppSrc
    audsrc,           \* GstOutputs.audsrc : MaybeAppSrc
    vid_inputselect,  \* GstOutputs.vid_inputselect : MaybeInputSelect
    selected,         \* the last switch a selector element took: which element, which branch
    inst,             \* number of pipeline instantiations started so far
    cb_pc,            \* position of the media-configure callback
    dropped,          \* the GstOutputs (and its channel receivers) was dropped
    routed,           \* the handles the last call's switch and write went to
    hist,             \* the last `window` calls of stream_recv / write_last_iframe
    window,           \* how many calls hist remembers
    units,            \* the units the camera of this session may send
    roles             \* rules added to the factory by add_permitted_roles

vars == <<video_format, audio_format, last_iframe, state, launch, vidsrc, audsrc,
          vid_inputselect, selected, inst, cb_pc, dropped, routed, hist, window, units,
          roles>>

----------------------------------------------------------------------------
(* Bounds of the model *)

\* pipeline (re)instantiations by the executor
MaxInst == 1
\* pipeline (re)instantiations, and calls from creation, under SpecHandoff
MaxHandoffInst == 2
MaxHandoffCalls == 2
\* calls from creation under SpecFormats
MaxFormatCalls == 3
\* calls from creation under SpecAdpcm
MaxAdpcmCalls == 5
\* calls from creation under SpecVideo
MaxVideoCalls == 3
\* calls from creation under SpecSession
MaxSessionCalls == 3

----------------------------------------------------------------------------
(* Data *)

\* Option::None
None == [tag |-> "None", block |-> 0]

\* enum StreamFormat
H264 == [tag |-> "H264", block |-> 0]
H265 == [tag |-> "H265", block |-> 0]
Aac == [tag |-> "Aac", block |-> 0]
Adpcm(block_size) == [tag |-> "Adpcm", block |-> block_size]

\* the length kept whole, as if the block size were a usize
Untruncated(n) == n

\* `as u16`
U16(n) == n % 65536

\* a payload (Vec<u8>): its content, and its length in bytes
Data(bytes, len) == [bytes |-> bytes, len |-> len]
NoData == Data("", 0)
\* Option<Vec<u8>>::None
NoIframe == [bytes |-> "", len |-> -1]

\* BcMedia
Iframe(video_type, data) == [kind |-> "Iframe", video_type |-> video_type, data |-> data]
Pframe(video_type, data) == [kind |-> "Pframe", video_type |-> video_type, data |-> data]
AacUnit(data) == [kind |-> "Aac", video_type |-> "", data |-> data]
AdpcmUnit(data) == [kind |-> "Adpcm", video_type |-> "", data |-> data]
InfoUnit == [kind |-> "InfoV1", video_type |-> "", data |-> NoData]
NoUnit == [kind |-> "", video_type |-> "", data |-> NoData]

\* enum InputSources and the index set_input_source passes to set_input
InputSources == {"Cam", "TestSrc", "Still", "Black"}

\* the indices counted from one
InputIndexFromOne(input_source) ==
    CASE input_source = "Cam" -> 1
      [] input_source = "TestSrc" -> 2
      [] input_source = "Still" -> 3
      [] input_source = "Black" -> 4

InputIndex(input_source) ==
    CASE input_source = "Cam" -> 0
      [] input_source = "TestSrc" -> 1
      [] input_source = "Still" -> 2
      [] input_source = "Black" -> 3

Last(s) == s[Len(s)]
Range(s) == {s[i] : i \in 1..Len(s)}

----------------------------------------------------------------------------
(* apply_format: the launch string, as the pieces the code joins, with the *)
(* block_align argument of format!() kept as a number                      *)

\* the pieces that link a branch to a sink pad of vid_inputselect
CamBranch == "vid_src_tee. ! queue silent=true  max-size-bytes=10485760  min-threshold-bytes=1024 ! vid_inputselect.sink_0"
TestBranch == "! vid_inputselect.sink_1"
FreezeBranch == " ! vid_inputselect.sink_2"

launch_vid_select(vf) ==
    CASE vf = H264 -> "! rtph264pay name=pay0"
      [] vf = H265 -> "! rtph265pay name=pay0"
      [] OTHER -> "! fakesink"

launch_app_src(vf) ==
    CASE vf = H264 -> "! queue silent=true max-size-bytes=10485760  min-threshold-bytes=1024 ! h264parse"
      [] vf = H265 -> "! queue silent=true  max-size-bytes=10485760  min-threshold-bytes=1024 ! h265parse"
      [] OTHER -> ""

launch_alt_source(vf) ==
    CASE vf = H264 -> "videotestsrc ! queue silent=true  max-size-bytes=10485760  min-threshold-bytes=1024 ! x264enc ! video/x-h264,width=896,height=512,framerate=25/1 ! h264parse"
      [] vf = H265 -> "videotestsrc ! queue silent=true  max-size-bytes=10485760  min-threshold-bytes=1024 ! x265enc ! video/x-h265,width=896,height=512,framerate=25/1 ! h265parse"
      [] OTHER -> ""

launch_imgfreeze_source(vf) ==
    CASE vf = H264 -> "avdec_h264 ! imagefreeze allow-replace=true is-live=true ! x264enc ! video/x-h264,width=896,height=512,framerate=25/1 ! h264parse"
      [] vf = H265 -> "decodebin ! imagefreeze allow-replace=true is-live=true ! x265enc ! video/x-h265,width=896,height=512,framerate=25/1 ! h265parse"
      [] OTHER -> ""

\* format!() puts block_size where this piece has {}
launch_aud(af) ==
    CASE af.tag = "Adpcm" -> "caps=audio/x-adpcm,layout=dvi,block_align={},channels=1,rate=8000 ! queue silent=true max-size-bytes=10485760 min-threshold-bytes=1024 ! adpcmdec  ! audioconvert ! rtpL16pay name=pay1"
      [] af.tag = "Aac" -> "! queue silent=true max-size-bytes=10485760 min-threshold-bytes=1024 ! aacparse ! decodebin ! audioconvert ! rtpL16pay name=pay1 name=pay1"
      [] OTHER -> "! fakesink"

\* the value format!() substitutes for {} in launch_aud (0: the piece has no {})
launch_aud_block_align(af) == IF af.tag = "Adpcm" THEN af.block ELSE 0

\* the launch string: the joined pieces, and the argument of format!()
apply_format(vf, af) ==
    [ parts |-> << "( ",
                   "(",
                       "input-selector name=vid_inputselect",
                       launch_vid_select(vf),
                   ")",
                   "(",
                       "appsrc name=vidsrc is-live=true block=true emit-signals=false max-bytes=52428800 do-timestamp=true format=GST_FORMAT_TIME",
                       launch_app_src(vf),
                       "! tee name=vid_src_tee",
                       "(",
                           CamBranch,
                       ")",
                   ")",
                   "(",
                       launch_alt_source(vf),
                       TestBranch,
                   ")",
                   "(",
                       "vid_src_tee. ! queue silent=true  max-size-bytes=10485760  min-threshold-bytes=1024 !",
                       launch_imgfreeze_source(vf),
                       FreezeBranch,
                   ")",
                   "appsrc name=audsrc is-live=true block=true emit-signals=false max-bytes=52428800 do-timestamp=true format=GST_FORMAT_TIME",
                   launch_aud(af),
                   ")" >>,
      block_align |-> launch_aud_block_align(af) ]

\* the sink pad of vid_inputselect a piece of the launch string links to (-1: none)
PadOf(piece) ==
    CASE piece = CamBranch -> 0
      [] piece = TestBranch -> 1
      [] piece = FreezeBranch -> 2
      [] OTHER -> -1

\* the selector pads a launch string wires a branch to
WiredPads(l) == {PadOf(piece) : piece \in Range(l.parts)} \ {-1}

----------------------------------------------------------------------------
(* set_format: the slots and the launch string after the call, and the     *)
(* number of apply_format calls it made                                    *)

IsVideoFormat(format) == format.tag \in {"H264", "H265"}
IsAudioFormat(format) == format.tag \in {"Aac", "Adpcm"}

\* set_format without its comparison: apply_format on every unit that has a format
set_format_eager(vf, af, l, format) ==
    IF IsVideoFormat(format)
    THEN [video_format |-> format, audio_format |-> af,
          launch |-> apply_format(format, af), installs |-> 1]
    ELSE IF IsAudioFormat(format)
    THEN [video_format |-> vf, audio_format |-> format,
          launch |-> apply_format(vf, format), installs |-> 1]
    ELSE [video_format |-> vf, audio_format |-> af, launch |-> l, installs |-> 0]

\* set_format comparing the variant only, not the block size of Adpcm
set_format_by_variant(vf, af, l, format) ==
    IF IsVideoFormat(format)
    THEN IF format.tag # vf.tag
         THEN [video_format |-> format, audio_format |-> af,
               launch |-> apply_format(format, af), installs |-> 1]
         ELSE [video_format |-> vf, audio_format |-> af, launch |-> l, installs |-> 0]
    ELSE IF IsAudioFormat(format)
    THEN IF format.tag # af.tag
         THEN [video_format |-> vf, audio_format |-> format,
               launch |-> apply_format(vf, format), installs |-> 1]
         ELSE [video_format |-> vf, audio_format |-> af, launch |-> l, installs |-> 0]
    ELSE [video_format |-> vf, audio_format |-> af, launch |-> l, installs |-> 0]

\* set_format keeping one format at a time: storing a changed format of one media
\* class forgets the format of the other
set_format_one_slot(vf, af, l, format) ==
    IF IsVideoFormat(format)
    THEN IF format # vf
         THEN [video_format |-> format, audio_format |-> None,
               launch |-> apply_format(format, None), installs |-> 1]
         ELSE [video_format |-> vf, audio_format |-> af, launch |-> l, installs |-> 0]
    ELSE IF IsAudioFormat(format)
    THEN IF format # af
         THEN [video_format |-> None, audio_format |-> format,
               launch |-> apply_format(None, format), installs |-> 1]
         ELSE [video_format |-> vf, audio_format |-> af, launch |-> l, installs |-> 0]
    ELSE [video_format |-> vf, audio_format |-> af, launch |-> l, installs |-> 0]

\* set_format storing the format without calling apply_format
set_format_no_apply(vf, af, l, format) ==
    IF IsVideoFormat(format)
    THEN [video_format |-> format, audio_format |-> af, launch |-> l, installs |-> 0]
    ELSE IF IsAudioFormat(format)
    THEN [video_format |-> vf, audio_format |-> format, launch |-> l, installs |-> 0]
    ELSE [video_format |-> vf, audio_format |-> af, launch |-> l, installs |-> 0]

set_format(vf, af, l, format) ==
    IF IsVideoFormat(format)
    THEN IF format # vf
         THEN [video_format |-> format, audio_format |-> af,
               launch |-> apply_format(format, af), installs |-> 1]
         ELSE [video_format |-> vf, audio_format |-> af, launch |-> l, installs |-> 0]
    ELSE IF IsAudioFormat(format)
    THEN IF format # af
         THEN [video_format |-> vf, audio_format |-> format,
               launch |-> apply_format(vf, format), installs |-> 1]
         ELSE [video_format |-> vf, audio_format |-> af, launch |-> l, installs |-> 0]
    ELSE [video_format |-> vf, audio_format |-> af, launch |-> l, installs |-> 0]

\* the format stream_recv derives from a unit (None for the ignored kinds)
VideoFormatOf(video_type) == IF video_type = "H264" THEN H264 ELSE H265

DerivedFormat(media) ==
    CASE media.kind \in {"Iframe", "Pframe"} -> VideoFormatOf(media.video_type)
      [] media.kind = "Aac" -> Aac
      [] media.kind = "Adpcm" -> Adpcm(U16(media.data.len))
      [] OTHER -> None

----------------------------------------------------------------------------
(* MaybeAppSrc / MaybeInputSelect: a cell holding the handle taken last    *)
(* from its channel.  A handle is the number of the instantiation that     *)
(* made it; 0 is "no handle yet".                                          *)

\* MaybeAppSrc::new_with_tx / MaybeInputSelect::new_with_tx
NewCell == [rx |-> <<>>, app_src |-> 0]

\* take everything the channel holds; the handle sent last stays
try_get_src(cell) ==
    IF cell.rx = <<>> THEN cell ELSE [rx |-> <<>>, app_src |-> Last(cell.rx)]

\* tx.send(handle): fails, changing nothing, once the receiver is gone
send(cell, handle, receiver_gone) ==
    IF receiver_gone THEN cell ELSE [cell EXCEPT !.rx = Append(@, handle)]

\* MaybeAppSrc as io::Write: write_all(data) on the current handle; `accepted`
\* is whether the write goes through (the data is pushed to the handle, or
\* discarded when there is none) or comes back as an io::Error
write_all(cell, data, accepted) ==
    LET now == try_get_src(cell)
    IN  [cell |-> now, ok |-> accepted, handle |-> now.app_src,
         written |-> IF accepted THEN <<data>> ELSE <<>>]

\* the last call switched nothing and wrote nothing
NoRoute == [sel |-> 0, src |-> 0]

\* no selector element has taken a switch yet
NoSwitch == [handle |-> 0, index |-> 0]

\* MaybeInputSelect::set_input(index): NotReady while there is no handle
set_input(cell, sel, index) ==
    LET now == try_get_src(cell)
    IN  IF now.app_src = 0
        THEN [cell |-> now, ok |-> FALSE, handle |-> 0, selected |-> sel]
        ELSE [cell |-> now, ok |-> TRUE, handle |-> now.app_src,
              selected |-> [handle |-> now.app_src, index |-> index]]

\* GstOutputs::set_input_source
set_input_source(cell, sel, input_source) == set_input(cell, sel, InputIndex(input_source))

----------------------------------------------------------------------------
(* RtspServer::add_permitted_roles *)

\* Structure::new(role, [ACCESS = true, CONSTRUCT = true])
FullRule(role) == [role |-> role, canAccess |-> TRUE, canConstruct |-> TRUE]
\* Structure::new("anonymous", [ACCESS = true])
AccessRule(role) == [role |-> role, canAccess |-> TRUE, canConstruct |-> FALSE]

\* the floor added whether or not anonymous is a permitted role
AnonymousFloorAlways(permitted_roles) == {AccessRule("anonymous")}

\* the rule the implicit floor adds, if any
AnonymousFloor(permitted_roles) ==
    IF "anonymous" \notin permitted_roles THEN {AccessRule("anonymous")} ELSE {}

\* the rules add_permitted_roles leaves in the factory
add_permitted_roles(permitted_roles) ==
    {FullRule(r) : r \in permitted_roles} \cup AnonymousFloor(permitted_roles)

----------------------------------------------------------------------------
(* The state after GstOutputs::from_appsrcs, as add_stream makes it *)

InitOutputs ==
    /\ video_format = None
    /\ audio_format = None
    /\ last_iframe = NoIframe
    /\ state = FALSE
    /\ launch = apply_format(None, None)
    /\ vidsrc = NewCell
    /\ audsrc = NewCell
    /\ vid_inputselect = NewCell
    /\ selected = NoSwitch
    /\ inst = 0
    /\ cb_pc = "idle"
    /\ dropped = FALSE
    /\ routed = NoRoute
    /\ hist = <<>>

----------------------------------------------------------------------------
(* The executor's media-configure callback (add_stream): one step per      *)
(* tx.send; it runs on the executor's thread, between any two calls of the *)
(* producer.  The instantiation makes fresh elements, numbered inst + 1.   *)

\* `let _ = tx.send(..)`: where the callback goes on to, whatever send returned
AfterSend(receiver_gone, next_pc) == next_pc

\* the video handle sent by the first instantiation only
ConfigureSendVidOnce ==
    /\ cb_pc = "idle"
    /\ inst' = inst + 1
    /\ vidsrc' = IF inst = 0 THEN send(vidsrc, inst + 1, dropped) ELSE vidsrc
    /\ cb_pc' = AfterSend(dropped, "sent_vid")
    /\ UNCHANGED <<video_format, audio_format, last_iframe, state, launch, audsrc,
                   vid_inputselect, selected, dropped, routed, hist, window, units, roles>>

\* let _ = tx.send(app_src)
ConfigureSendVid ==
    /\ cb_pc = "idle"
    /\ inst' = inst + 1
    /\ vidsrc' = send(vidsrc, inst + 1, dropped)
    /\ cb_pc' = AfterSend(dropped, "sent_vid")
    /\ UNCHANGED <<video_format, audio_format, last_iframe, state, launch, audsrc,
                   vid_inputselect, selected, dropped, routed, hist, window, units, roles>>

\* let _ = tx_aud.send(app_src_aud)
ConfigureSendAud ==
    /\ cb_pc = "sent_vid"
    /\ audsrc' = send(audsrc, inst, dropped)
    /\ cb_pc' = AfterSend(dropped, "sent_aud")
    /\ UNCHANGED <<video_format, audio_format, last_iframe, state, launch, vidsrc,
                   vid_inputselect, selected, inst, dropped, routed, hist, window, units, roles>>

\* let _ = tx_vid_inputselect.send(maybe_vid_inputselect)
ConfigureSendSel ==
    /\ cb_pc = "sent_aud"
    /\ vid_inputselect' = send(vid_inputselect, inst, dropped)
    /\ cb_pc' = AfterSend(dropped, "idle")
    /\ UNCHANGED <<video_format, audio_format, last_iframe, state, launch, vidsrc,
                   audsrc, selected, inst, dropped, routed, hist, window, units, roles>>

\* the owner drops the GstOutputs, and with it the three receivers
DropOutputs ==
    /\ ~dropped
    /\ dropped' = TRUE
    /\ UNCHANGED <<video_format, audio_format, last_iframe, state, launch, vidsrc,
                   audsrc, vid_inputselect, selected, inst, cb_pc, routed, hist, window,
                   units, roles>>

----------------------------------------------------------------------------
(* Operations of GstOutputs *)

\* what a call leaves in hist: its result, whether its switch of the selector
\* went through, the apply_format calls it made, whether it asked should_stream()
\* and what the oracle of the session answers at that moment ("none": no oracle
\* set), and what it wrote to vidsrc and audsrc
Call(op, unit, source, ret, ready, installs, consulted, oracle, vid, aud) ==
    [op |-> op, unit |-> unit, source |-> source, ret |-> ret, ready |-> ready,
     installs |-> installs, consulted |-> consulted, oracle |-> oracle,
     vid |-> vid, aud |-> aud]

\* hist after one more call
Record(h, call) == IF Len(h) < window THEN Append(h, call) ELSE Append(Tail(h), call)

\* set_state
SetState ==
    /\ ~dropped
    /\ state' = TRUE
    /\ UNCHANGED <<video_format, audio_format, last_iframe, launch, vidsrc, audsrc,
                   vid_inputselect, selected, inst, cb_pc, dropped, routed, hist, window,
                   units, roles>>

\* set_input_source(input_source), called by the owner
SetInputSource(input_source) ==
    /\ ~dropped
    /\ \E r \in {set_input_source(vid_inputselect, selected, input_source)} :
           /\ vid_inputselect' = r.cell
           /\ selected' = r.selected
           /\ routed' = [sel |-> r.handle, src |-> 0]
           /\ hist' = Record(hist, Call("set_input_source", NoUnit, input_source,
                                        IF r.ok THEN "ok" ELSE "not_ready", r.ok, 0,
                                        FALSE, "none", <<>>, <<>>))
    /\ UNCHANGED <<video_format, audio_format, last_iframe, state, launch, vidsrc,
                   audsrc, inst, cb_pc, dropped, window, units, roles>>

\* from_appsrcs calls apply_format once
CreationInstalls == 1

\* has_last_iframe
has_last_iframe == last_iframe # NoIframe

\* write_last_iframe writing an empty frame when none is retained
write_last_iframe_or_empty(cell, iframe, accepted) ==
    LET w == write_all(cell, IF iframe = NoIframe THEN NoData ELSE iframe, accepted)
    IN  [cell |-> w.cell, ret |-> IF w.ok THEN "ok" ELSE "err",
         written |-> w.written, handle |-> w.handle]

\* write_last_iframe; accepted: whether the write goes through
write_last_iframe(cell, iframe, accepted) ==
    IF iframe = NoIframe
    THEN [cell |-> cell, ret |-> "no_data", written |-> <<>>, handle |-> 0]
    ELSE LET w == write_all(cell, iframe, accepted)
         IN  [cell |-> w.cell, ret |-> IF w.ok THEN "ok" ELSE "err",
              written |-> w.written, handle |-> w.handle]

WriteLastIframe(accepted) ==
    /\ ~dropped
    /\ \E r \in {write_last_iframe(vidsrc, last_iframe, accepted)} :
           /\ vidsrc' = r.cell
           /\ routed' = [sel |-> 0, src |-> r.handle]
           /\ hist' = Record(hist, Call("write_last_iframe", NoUnit, "", r.ret, FALSE, 0,
                                        FALSE, "none", r.written, <<>>))
    /\ UNCHANGED <<video_format, audio_format, last_iframe, state, launch, audsrc,
                   vid_inputselect, selected, inst, cb_pc, dropped, window, units, roles>>

\* last_iframe set before the write, so also when the write fails
RetainsBeforeWrite(media, written_ok) == media.kind = "Iframe"

\* last_iframe set by delta frames too
RetainsAnyVideo(media, written_ok) == media.kind \in {"Iframe", "Pframe"} /\ written_ok

\* stream_recv: the unit is kept as last_iframe (after its write went through)
Retains(media, written_ok) == media.kind = "Iframe" /\ written_ok

\* should_stream() asked after every video unit
ConsultsAnyVideo(media, written_ok, has_state) ==
    media.kind \in {"Iframe", "Pframe"} /\ written_ok /\ has_state

\* should_stream() asked before the write of the key frame
ConsultsBeforeWrite(media, written_ok, has_state) == media.kind = "Iframe" /\ has_state

\* stream_recv: state.should_stream() is asked (only in the Iframe arm, after the
\* write and the retention, and only with a state set)
Consults(media, written_ok, has_state) == media.kind = "Iframe" /\ written_ok /\ has_state

\* every payload written to vidsrc
WritePointVideoOnly(media) ==
    IF media.kind \in {"Iframe", "Pframe", "Aac", "Adpcm"} THEN "vidsrc" ELSE "none"

\* stream_recv: the MaybeAppSrc the arm of a unit writes its payload to
WritePoint(media) ==
    CASE media.kind \in {"Iframe", "Pframe"} -> "vidsrc"
      [] media.kind \in {"Aac", "Adpcm"} -> "audsrc"
      [] OTHER -> "none"

\* the result of write_all dropped, as with `let _ =`
ReturnedIgnoringWrite(written_ok, should_continue) ==
    IF should_continue THEN "true" ELSE "false"

\* stream_recv: what the call returns: the error of the write through `?`, else
\* Ok(should_continue)
Returned(written_ok, should_continue) ==
    IF ~written_ok THEN "err" ELSE IF should_continue THEN "true" ELSE "false"

\* stream_recv(media), after set_input_source(Cam) went through.  accepted: whether
\* the write goes through; should_stream: what state.should_stream() answers if asked
recv_media(media, accepted, should_stream) ==
    LET f == set_format(video_format, audio_format, launch, DerivedFormat(media))
        is_video == WritePoint(media) = "vidsrc"
        is_audio == WritePoint(media) = "audsrc"
        w == IF is_video THEN write_all(vidsrc, media.data, accepted)
             ELSE IF is_audio THEN write_all(audsrc, media.data, accepted)
             ELSE [cell |-> vidsrc, ok |-> TRUE, handle |-> 0, written |-> <<>>]
        consulted == Consults(media, w.ok, state)
    IN  [video_format |-> f.video_format,
         audio_format |-> f.audio_format,
         launch |-> f.launch,
         installs |-> f.installs,
         vidsrc |-> IF is_video THEN w.cell ELSE vidsrc,
         audsrc |-> IF is_audio THEN w.cell ELSE audsrc,
         last_iframe |-> IF Retains(media, w.ok) THEN media.data ELSE last_iframe,
         consulted |-> consulted,
         ret |-> Returned(w.ok, ~consulted \/ should_stream),
         vid |-> IF is_video THEN w.written ELSE <<>>,
         aud |-> IF is_audio THEN w.written ELSE <<>>,
         src |-> w.handle]

\* what the oracle of the session answers at this moment
Oracle(should_stream) == IF ~state THEN "none" ELSE IF should_stream THEN "true" ELSE "false"

\* stream_recv(media)
StreamRecv(media, accepted, should_stream) ==
    /\ ~dropped
    /\ \E s \in {set_input_source(vid_inputselect, selected, "Cam")},
          r \in {recv_media(media, accepted, should_stream)} :
           /\ vid_inputselect' = s.cell
           /\ selected' = s.selected
           /\ IF s.ok
              THEN /\ video_format' = r.video_format
                   /\ audio_format' = r.audio_format
                   /\ launch' = r.launch
                   /\ vidsrc' = r.vidsrc
                   /\ audsrc' = r.audsrc
                   /\ last_iframe' = r.last_iframe
                   /\ routed' = [sel |-> s.handle, src |-> r.src]
                   /\ hist' = Record(hist, Call("stream_recv", media, "Cam", r.ret, TRUE,
                                                r.installs, r.consulted,
                                                Oracle(should_stream), r.vid, r.aud))
              ELSE /\ routed' = NoRoute
                   /\ hist' = Record(hist, Call("stream_recv", media, "Cam", "err", FALSE,
                                                0, FALSE, Oracle(should_stream), <<>>,
                                                <<>>))
                   /\ UNCHANGED <<video_format, audio_format, launch, vidsrc, audsrc,
                                  last_iframe>>
    /\ UNCHANGED <<state, inst, cb_pc, dropped, window, units, roles>>

----------------------------------------------------------------------------
(* add_permitted_roles(factory, permitted_roles), rule by rule: the loop   *)
(* takes the roles of the HashSet in any order                             *)

\* one turn of `for permitted_role in permitted_roles`
AddRole(permitted_role) ==
    /\ roles.pc = "loop"
    /\ permitted_role \in roles.todo
    /\ roles' = [roles EXCEPT !.todo = @ \ {permitted_role},
                              !.rules = @ \cup {FullRule(permitted_role)}]
    /\ UNCHANGED <<video_format, audio_format, last_iframe, state, launch, vidsrc,
                   audsrc, vid_inputselect, selected, inst, cb_pc, dropped, routed, hist,
                   window, units>>

\* if !permitted_roles.contains(&"anonymous") { ... }
AddAnonymous ==
    /\ roles.pc = "loop"
    /\ roles.todo = {}
    /\ roles' = [roles EXCEPT !.pc = "done",
                              !.rules = @ \cup AnonymousFloor(roles.permitted)]
    /\ UNCHANGED <<video_format, audio_format, last_iframe, state, launch, vidsrc,
                   audsrc, vid_inputselect, selected, inst, cb_pc, dropped, routed, hist,
                   window, units>>

----------------------------------------------------------------------------
(* Inputs *)

VideoTypes == {"H264", "H265"}
\* payload lengths of audio units; 65696 = 65536 + 160
AudioLens == {160, 320, 65696}
AudioData(len) == Data("x", len)
A == Data("A", 1)
B == Data("B", 1)
C == Data("C", 1)

\* Spec: both codecs, all kinds
Units ==
    {Iframe(t, d) : t \in VideoTypes, d \in {A, B}}
    \cup {Pframe(t, d) : t \in VideoTypes, d \in {A, B}}
    \cup {AacUnit(AudioData(160))}
    \cup {AdpcmUnit(AudioData(n)) : n \in AudioLens}
    \cup {InfoUnit}

\* SpecFormats: units of every format, one payload each
FormatUnits ==
    {Iframe("H264", A), Iframe("H265", A), Pframe("H264", A), AacUnit(AudioData(160)),
     AdpcmUnit(AudioData(160)), AdpcmUnit(AudioData(65696)), InfoUnit}

\* SpecAdpcm: ADPCM units only
AdpcmUnits == {AdpcmUnit(AudioData(n)) : n \in AudioLens}

\* SpecVideo: H264 video only
VideoUnits == {Iframe("H264", A), Pframe("H264", B), Iframe("H264", C)}

\* SpecHandoff: one video and one audio unit
HandoffUnits == {Iframe("H264", A), AacUnit(AudioData(160))}

\* SpecSession: a key frame, a delta frame, an audio unit and an informational unit
SessionUnits == {Iframe("H264", A), Pframe("H264", B), AacUnit(AudioData(160)), InfoUnit}

\* the users add_stream is given
PermittedUsers == {"alice"}
RoleNames == {"alice", "bob", "carol", "dave", "anonymous"}

----------------------------------------------------------------------------
(* Specifications *)

\* add_stream has returned the GstOutputs; the pipeline is not instantiated yet
Created ==
    /\ InitOutputs
    /\ roles = [permitted |-> PermittedUsers, todo |-> {},
                rules |-> add_permitted_roles(PermittedUsers), pc |-> "done"]

MediaConfigure == ConfigureSendVid \/ ConfigureSendAud \/ ConfigureSendSel

Recv == \E media \in units, accepted, should_stream \in BOOLEAN :
            StreamRecv(media, accepted, should_stream)
Replay == \E accepted \in BOOLEAN : WriteLastIframe(accepted)
Select == \E input_source \in InputSources : SetInputSource(input_source)

\* Spec: any units, any number of calls; hist is the last call
Init == Created /\ units = Units /\ window = 1

Next ==
    \/ (cb_pc # "idle" \/ inst < MaxInst) /\ MediaConfigure
    \/ DropOutputs
    \/ SetState
    \/ Select
    \/ Replay
    \/ Recv

Spec == Init /\ [][Next]_vars

\* SpecVideo: a video session from creation; hist is every call made
InitVideo == Created /\ units = VideoUnits /\ window = MaxVideoCalls

NextVideo ==
    \/ (cb_pc # "idle" \/ inst < MaxInst) /\ MediaConfigure
    \/ SetState
    \/ Len(hist) < window /\ Select
    \/ Len(hist) < window /\ Replay
    \/ Len(hist) < window /\ Recv

SpecVideo == InitVideo /\ [][NextVideo]_vars

\* SpecFormats: units of every format from creation, no oracle; hist is every call
InitFormats == Created /\ units = FormatUnits /\ window = MaxFormatCalls

NextFormats ==
    \/ (cb_pc # "idle" \/ inst < MaxInst) /\ MediaConfigure
    \/ Len(hist) < window /\ Recv

SpecFormats == InitFormats /\ [][NextFormats]_vars

\* SpecAdpcm: ADPCM units from creation; hist is every call made
InitAdpcm == Created /\ units = AdpcmUnits /\ window = MaxAdpcmCalls

NextAdpcm ==
    \/ (cb_pc # "idle" \/ inst < MaxInst) /\ MediaConfigure
    \/ Len(hist) < window /\ Recv

SpecAdpcm == InitAdpcm /\ [][NextAdpcm]_vars

\* SpecHandoff: the executor instantiates the pipeline again and again while the
\* producer calls in, and the owner may drop the GstOutputs; hist is every call
InitHandoff == Created /\ units = HandoffUnits /\ window = MaxHandoffCalls

NextHandoff ==
    \/ (cb_pc # "idle" \/ inst < MaxHandoffInst) /\ MediaConfigure
    \/ DropOutputs
    \/ Len(hist) < window /\ Select
    \/ Len(hist) < window /\ Replay
    \/ Len(hist) < window /\ Recv

SpecHandoff == InitHandoff /\ [][NextHandoff]_vars

\* SpecSession: video, audio and informational units from creation, with switches of
\* the selector and replays by the owner; hist is every call made
InitSession == Created /\ units = SessionUnits /\ window = MaxSessionCalls

NextSession ==
    \/ (cb_pc # "idle" \/ inst < MaxInst) /\ MediaConfigure
    \/ Len(hist) < window /\ Select
    \/ Len(hist) < window /\ Replay
    \/ Len(hist) < window /\ Recv

SpecSession == InitSession /\ [][NextSession]_vars

\* SpecRoles: add_stream is about to call add_permitted_roles with any set of roles
InitRoles ==
    /\ InitOutputs /\ units = {} /\ window = 0
    /\ \E permitted_roles \in SUBSET RoleNames :
           roles = [permitted |-> permitted_roles, todo |-> permitted_roles,
                    rules |-> {}, pc |-> "loop"]

NextRoles == AddAnonymous \/ \E permitted_role \in RoleNames : AddRole(permitted_role)

SpecRoles == InitRoles /\ [][NextRoles]_vars

----------------------------------------------------------------------------
(* Reading hist *)

LastCall == hist[Len(hist)]

\* this step is a call: under the specifications that keep every call, hist grows
IsCall == Len(hist') = Len(hist) + 1

IsVideoUnit(media) == media.kind \in {"Iframe", "Pframe"}
IsAudioUnit(media) == media.kind \in {"Aac", "Adpcm"}

\* a stream_recv call that got past the selector step
IsRecv(call) == call.op = "stream_recv" /\ call.ready
\* a stream_recv call that returned Ok
IsRecvOk(call) == IsRecv(call) /\ call.ret \in {"true", "false"}
\* a stream_recv call that processed a key frame
IsKeyFrameOk(call) == IsRecvOk(call) /\ call.unit.kind = "Iframe"

Recvs == SelectSeq(hist, IsRecv)

RECURSIVE SumInstalls(_)
SumInstalls(calls) ==
    IF calls = <<>> THEN 0 ELSE calls[1].installs + SumInstalls(Tail(calls))

\* apply_format calls made by stream_recv, and in total from creation
RecvInstalls == SumInstalls(Recvs)
TotalInstalls == CreationInstalls + SumInstalls(hist)

\* the slot of the media class of a unit, as stored now
SlotOf(media) ==
    IF IsVideoUnit(media) THEN video_format
    ELSE IF IsAudioUnit(media) THEN audio_format ELSE None

----------------------------------------------------------------------------
(* C1 *)

\* the call of this step, if it is a stream_recv past the selector step, installs
\* a launch string once if the format derived from its unit differs from the slot
\* of its media class, and installs nothing and leaves the factory alone otherwise
C1_Step ==
    (IsCall /\ IsRecv(LastCall'))
        => LET media == LastCall'.unit
               differs == DerivedFormat(media) # None
                          /\ DerivedFormat(media) # SlotOf(media)
           IN  /\ LastCall'.installs = (IF differs THEN 1 ELSE 0)
               /\ ~differs => launch' = launch

\* every video unit received has one codec, every audio unit derives one format
OneFormatEach ==
    /\ Cardinality({DerivedFormat(Recvs[i].unit) :
                      i \in {j \in 1..Len(Recvs) : IsVideoUnit(Recvs[j].unit)}}) <= 1
    /\ Cardinality({DerivedFormat(Recvs[i].unit) :
                      i \in {j \in 1..Len(Recvs) : IsAudioUnit(Recvs[j].unit)}}) <= 1

\* C1: stream_recv installs a launch string exactly when the derived format differs
\* from the stored slot of the unit's media class, once; so a session whose video
\* units have one codec and whose audio units derive one format sees at most 2
\* installs by stream_recv, however many units it receives.
C1_InstallOncePerFormatChange ==
    /\ [](OneFormatEach => RecvInstalls <= 2)
    /\ [][C1_Step]_vars

\* three units received, the third with the format its slot already holds; two
\* installs in all
C1_Witness ==
    /\ Len(Recvs) = 3
    /\ OneFormatEach
    /\ RecvInstalls = 2
    /\ Recvs[3].installs = 0
    /\ DerivedFormat(Recvs[3].unit) = SlotOf(Recvs[3].unit)
    /\ Recvs[3].unit.kind = "Iframe"

----------------------------------------------------------------------------
(* C2 *)

\* the payload lengths of the ADPCM units received, and the rebuilds they made
AdpcmLens == [i \in 1..Len(Recvs) |-> Recvs[i].unit.data.len]
AdpcmRebuilds == [i \in 1..Len(Recvs) |-> Recvs[i].installs]

Script == <<160, 160, 320, 320, 160>>
ScriptRebuilds == <<1, 0, 1, 0, 1>>

\* the claim as written: an ADPCM unit changes audio_format, and rebuilds, if and
\* only if its payload length differs from the stored block size
C2_RebuildIffLengthDiffers ==
    [][(IsCall /\ IsRecv(LastCall') /\ LastCall'.unit.kind = "Adpcm")
          => LET len == LastCall'.unit.data.len
                 differs == audio_format.tag # "Adpcm" \/ len # audio_format.block
             IN  /\ (audio_format' # audio_format) <=> differs
                 /\ (LastCall'.installs = 1) <=> differs]_vars

\* C2 (amended): an ADPCM unit changes audio_format, and rebuilds, if and only if
\* its payload length modulo 65536 differs from the stored block size (or no ADPCM
\* format is stored); lengths 160, 160, 320, 320, 160 on a fresh sink rebuild
\* after units 1, 3 and 5 only.
C2_RebuildIffBlockSizeDiffers ==
    /\ [](\A k \in 1..Len(Script) :
            (Len(Recvs) = k /\ AdpcmLens = SubSeq(Script, 1, k))
                => AdpcmRebuilds = SubSeq(ScriptRebuilds, 1, k))
    /\ [][(IsCall /\ IsRecv(LastCall') /\ LastCall'.unit.kind = "Adpcm")
            => LET len == LastCall'.unit.data.len
                   differs == audio_format.tag # "Adpcm" \/ U16(len) # audio_format.block
               IN  /\ (audio_format' # audio_format) <=> differs
                   /\ (LastCall'.installs = 1) <=> differs
                   /\ differs => audio_format' = Adpcm(U16(len))]_vars

\* the five units of the script were received and rebuilt after units 1, 3, 5
C2_Witness ==
    /\ Len(Recvs) = 5
    /\ AdpcmLens = Script
    /\ AdpcmRebuilds = ScriptRebuilds
    /\ audio_format = Adpcm(160)

----------------------------------------------------------------------------
(* C3 *)

\* C3: stream_recv returns keepStreaming = false only for a key frame; for any
\* other unit it does not ask should_stream() and, unless it fails, returns true,
\* whatever the oracle would answer.
C3_StopOnlyAtKeyFrame ==
    (hist # <<>> /\ LastCall.op = "stream_recv")
        => /\ LastCall.ret = "false" => LastCall.unit.kind = "Iframe"
           /\ LastCall.unit.kind # "Iframe"
                => /\ ~LastCall.consulted
                   /\ LastCall.ret # "err" => LastCall.ret = "true"

\* a delta frame went through while the oracle says stop: the call returned true
C3_Witness ==
    /\ hist # <<>>
    /\ IsRecvOk(LastCall)
    /\ LastCall.unit.kind = "Pframe"
    /\ LastCall.oracle = "false"
    /\ LastCall.ret = "true"

----------------------------------------------------------------------------
(* C4 *)

\* C4: has_last_iframe is false from creation until stream_recv has processed a
\* key frame (returned Ok for an Iframe), and true from that call on, whatever
\* calls of stream_recv, write_last_iframe or set_input_source follow.
C4_HasLastIframeLatch ==
    has_last_iframe <=> \E i \in 1..Len(hist) : IsKeyFrameOk(hist[i])

\* a key frame was processed first, then the selector was switched and the frame
\* replayed: has_last_iframe still holds
C4_Witness ==
    /\ Len(hist) = 3
    /\ IsKeyFrameOk(hist[1])
    /\ hist[2].op = "set_input_source"
    /\ hist[3].op = "write_last_iframe"
    /\ has_last_iframe

----------------------------------------------------------------------------
(* C5 *)

\* the payload of the last key frame processed among the first n calls
RECURSIVE LastKeyFrame(_)
LastKeyFrame(n) ==
    IF n = 0 THEN NoIframe
    ELSE IF IsKeyFrameOk(hist[n]) THEN hist[n].unit.data ELSE LastKeyFrame(n - 1)

\* the claim as written: once a key frame was processed, every write_last_iframe
\* succeeds and writes the payload of the most recent key frame processed
C5_ReplayAlwaysSucceeds ==
    \A i \in 1..Len(hist) :
        (hist[i].op = "write_last_iframe" /\ LastKeyFrame(i - 1) # NoIframe)
            => /\ hist[i].ret = "ok"
               /\ hist[i].vid = <<LastKeyFrame(i - 1)>>

\* C5 (amended): once a key frame was processed, write_last_iframe never fails for
\* want of data; it succeeds unless its write to the video injection point fails,
\* and a successful call has written exactly the payload of the most recent key
\* frame processed, a failed one nothing.
C5_ReplayWritesLastKeyFrame ==
    \A i \in 1..Len(hist) :
        (hist[i].op = "write_last_iframe" /\ LastKeyFrame(i - 1) # NoIframe)
            => /\ hist[i].ret \in {"ok", "err"}
               /\ hist[i].ret = "ok" => hist[i].vid = <<LastKeyFrame(i - 1)>>
               /\ hist[i].ret = "err" => hist[i].vid = <<>>
               /\ hist[i].aud = <<>>

\* key frame A, then key frame C, then a replay that wrote C
C5_Witness ==
    /\ Len(hist) = 3
    /\ IsKeyFrameOk(hist[1]) /\ hist[1].unit.data = A
    /\ IsKeyFrameOk(hist[2]) /\ hist[2].unit.data = C
    /\ hist[3].op = "write_last_iframe"
    /\ hist[3].ret = "ok"
    /\ hist[3].vid = <<C>>

----------------------------------------------------------------------------
(* C6 *)

\* C6: add_permitted_roles leaves exactly one rule with access and construct for
\* each permitted role and, if and only if anonymous is not permitted, one rule
\* for anonymous with access and without construct.
C6_PermittedRoles ==
    roles.pc = "done"
        => LET permitted == roles.permitted
               rules == roles.rules
               floor == [role |-> "anonymous", canAccess |-> TRUE, canConstruct |-> FALSE]
           IN  /\ \A r \in permitted :
                     [role |-> r, canAccess |-> TRUE, canConstruct |-> TRUE] \in rules
               /\ floor \in rules <=> "anonymous" \notin permitted
               /\ Cardinality(rules)
                     = Cardinality(permitted) + (IF "anonymous" \in permitted THEN 0 ELSE 1)
               /\ \E rule \in rules : rule.role = "anonymous" /\ rule.canAccess
               /\ \A rule \in rules : rule.canConstruct => rule.role \in permitted
               /\ permitted = {"alice", "bob"} => Cardinality(rules) = 3
               /\ permitted = {"anonymous"}
                     => rules = {[role |-> "anonymous", canAccess |-> TRUE,
                                  canConstruct |-> TRUE]}
               /\ permitted = {} => rules = {floor}

\* add_permitted_roles has run for {alice, bob}
C6_Witness ==
    /\ roles.pc = "done"
    /\ roles.permitted = {"alice", "bob"}
    /\ Cardinality(roles.rules) = 3

----------------------------------------------------------------------------
(* C7 *)

\* C7: a stream_recv whose switch of the selector finds no handle yet does not
\* return an error, and goes on to classify and forward the unit.
C7_NotReadyTolerated ==
    (hist # <<>> /\ LastCall.op = "stream_recv" /\ ~LastCall.ready)
        => LastCall.ret # "err"

----------------------------------------------------------------------------
(* C8 *)

\* the calls made from creation are stream_recv of key frame A, delta frame B, key
\* frame C (H264), the writes went through, and the oracle answers true at the
\* first key frame and false from the second on
E2EScenario ==
    /\ Len(hist) = 3
    /\ \A i \in 1..3 : hist[i].op = "stream_recv" /\ hist[i].ret # "err"
    /\ hist[1].unit = Iframe("H264", A) /\ hist[1].oracle = "true"
    /\ hist[2].unit = Pframe("H264", B) /\ hist[2].oracle # "none"
    /\ hist[3].unit = Iframe("H264", C) /\ hist[3].oracle = "false"

\* C8: in that scenario there are two installs in all from creation, the video
\* writes are A, B, C in this order, and stream_recv returns true, true, false.
C8_EndToEnd ==
    E2EScenario
        => /\ TotalInstalls = 2
           /\ hist[1].vid \o hist[2].vid \o hist[3].vid = <<A, B, C>>
           /\ hist[1].aud \o hist[2].aud \o hist[3].aud = <<>>
           /\ <<hist[1].ret, hist[2].ret, hist[3].ret>> = <<"true", "true", "false">>

C8_Witness == E2EScenario /\ video_format = H264 /\ last_iframe = C

----------------------------------------------------------------------------
(* C9 *)

\* the handle sent last on each channel, from where the callback stands: it sends
\* the video handle first, then the audio handle, then the selector
DeliveredVid == inst
DeliveredAud == IF cb_pc = "sent_vid" THEN inst - 1 ELSE inst
DeliveredSel == IF cb_pc = "idle" THEN inst ELSE inst - 1

\* the call of this step switches the selector handle, and writes to the video or
\* audio handle, that was delivered last
C9_Step ==
    IsCall
        => LET call == LastCall'
           IN  /\ call.op \in {"stream_recv", "set_input_source"}
                     => /\ routed'.sel = DeliveredSel
                        /\ call.ready <=> DeliveredSel # 0
               /\ (call.op = "write_last_iframe" /\ call.ret # "no_data")
                     => routed'.src = DeliveredVid
               /\ (IsRecv(call) /\ IsVideoUnit(call.unit)) => routed'.src = DeliveredVid
               /\ (IsRecv(call) /\ IsAudioUnit(call.unit)) => routed'.src = DeliveredAud

\* C9: whatever the interleaving of the media-configure callback with the calls of
\* the producer, every write and every switch goes to the handle its channel was
\* sent last, so after an instantiation to that instantiation's handle; and the
\* callback runs to its end when the GstOutputs is gone.
C9_LatestHandleWins ==
    /\ [](cb_pc # "idle" => ENABLED MediaConfigure)
    /\ [][C9_Step]_vars

\* after two instantiations a call switched and wrote to the second handles, the
\* call before having gone through as well
C9_Witness ==
    /\ inst = 2
    /\ Len(hist) = 2
    /\ IsRecvOk(hist[1]) /\ hist[1].vid # <<>>
    /\ IsRecvOk(hist[2]) /\ hist[2].vid # <<>>
    /\ routed = [sel |-> 2, src |-> 2]
    /\ vidsrc.app_src = 2

----------------------------------------------------------------------------
(* C10 *)

\* C10: the installed launch string wires a branch of vid_inputselect at the index
\* of every InputSources value.
C10_EverySourceWired ==
    \A input_source \in InputSources : InputIndex(input_source) \in WiredPads(launch)

----------------------------------------------------------------------------
(* C11 *)

\* the stream_recv call got past the selector step and its arm wrote nothing: the
\* write of a video or audio unit failed
WriteFailed(call) ==
    /\ IsRecv(call)
    /\ IsVideoUnit(call.unit) \/ IsAudioUnit(call.unit)
    /\ call.vid = <<>> /\ call.aud = <<>>

\* C11: a stream_recv whose write to the injection point of the unit fails returns
\* an error, never keepStreaming true or false; a stream_recv whose selector step
\* and write (if the unit has one) go through returns Ok.
C11_WriteFailureIsError ==
    (hist # <<>> /\ LastCall.op = "stream_recv")
        => /\ WriteFailed(LastCall) => LastCall.ret = "err"
           /\ (LastCall.ready /\ ~WriteFailed(LastCall)) => LastCall.ret \in {"true", "false"}
           /\ IsRecvOk(LastCall)
                => /\ IsVideoUnit(LastCall.unit) => LastCall.vid = <<LastCall.unit.data>>
                   /\ IsAudioUnit(LastCall.unit) => LastCall.aud = <<LastCall.unit.data>>

\* the write of an audio unit failed with a ready selector: the call returned an error
C11_Witness ==
    /\ hist # <<>>
    /\ WriteFailed(LastCall)
    /\ LastCall.unit.kind = "Adpcm"
    /\ LastCall.ret = "err"
    /\ selected.index = 0 /\ selected.handle # 0

----------------------------------------------------------------------------
(* C12 *)

\* the selector cell holds, or is about to take from its channel, a live handle
SelectorReady == vid_inputselect.app_src # 0 \/ vid_inputselect.rx # <<>>

\* the handle a switch made now goes to
CurrentSelector ==
    IF vid_inputselect.rx # <<>> THEN Last(vid_inputselect.rx) ELSE vid_inputselect.app_src

\* the call of this step, if it is a stream_recv, asks the selector for branch 0
\* whatever its unit is, and before anything else: with no handle nothing is
\* classified or written, with a handle the active branch becomes 0, and is left
\* as it is when it was 0 on that handle already
C12_Step ==
    (IsCall /\ LastCall'.op = "stream_recv")
        => /\ LastCall'.source = "Cam"
           /\ LastCall'.ready <=> SelectorReady
           /\ ~LastCall'.ready
                => /\ UNCHANGED <<video_format, audio_format, launch, last_iframe,
                                  vidsrc, audsrc, selected>>
                   /\ LastCall'.vid = <<>> /\ LastCall'.aud = <<>>
           /\ LastCall'.ready => selected' = [handle |-> CurrentSelector, index |-> 0]
           /\ (LastCall'.ready /\ selected = [handle |-> CurrentSelector, index |-> 0])
                => selected' = selected

\* C12: every stream_recv requests branch 0 (Cam) on the selector before it
\* classifies or writes, for every unit kind; with a ready selector the active
\* branch after the call is 0 whatever set_input_source selected before, and a
\* call made while branch 0 is active changes nothing of the selection.
C12_CameraForced ==
    /\ []((hist # <<>> /\ IsRecv(LastCall)) => selected.index = 0)
    /\ [][C12_Step]_vars

\* Black was selected, then an informational unit and a key frame were received:
\* branch 0 is active
C12_Witness ==
    /\ Len(hist) = 3
    /\ hist[1].op = "set_input_source" /\ hist[1].source = "Black" /\ hist[1].ready
    /\ IsRecvOk(hist[2]) /\ hist[2].unit = InfoUnit
    /\ IsRecvOk(hist[3]) /\ hist[3].unit.kind = "Iframe"
    /\ selected.index = 0 /\ selected.handle # 0

----------------------------------------------------------------------------
(* C13 *)

\* what the first n calls wrote to vidsrc and to audsrc, in order
RECURSIVE VidWritten(_)
VidWritten(n) == IF n = 0 THEN <<>> ELSE VidWritten(n - 1) \o hist[n].vid
RECURSIVE AudWritten(_)
AudWritten(n) == IF n = 0 THEN <<>> ELSE AudWritten(n - 1) \o hist[n].aud

\* the payloads of the video units, and of the audio units, given to the first n
\* calls, in arrival order
RECURSIVE VideoPayloads(_)
VideoPayloads(n) ==
    IF n = 0 THEN <<>>
    ELSE IF hist[n].op = "stream_recv" /\ IsVideoUnit(hist[n].unit)
         THEN Append(VideoPayloads(n - 1), hist[n].unit.data)
         ELSE VideoPayloads(n - 1)
RECURSIVE AudioPayloads(_)
AudioPayloads(n) ==
    IF n = 0 THEN <<>>
    ELSE IF hist[n].op = "stream_recv" /\ IsAudioUnit(hist[n].unit)
         THEN Append(AudioPayloads(n - 1), hist[n].unit.data)
         ELSE AudioPayloads(n - 1)

\* every stream_recv so far returned Ok, and write_last_iframe was not called
AllForwarded ==
    \A i \in 1..Len(hist) :
        /\ hist[i].op # "write_last_iframe"
        /\ hist[i].op = "stream_recv" => IsRecvOk(hist[i])

\* C13: while every stream_recv returns Ok and there is no replay, what was written
\* to vidsrc is the payloads of the Iframe and Pframe units in arrival order and
\* what was written to audsrc is the payloads of the Aac and Adpcm units in arrival
\* order; a stream_recv writes at most once, its own payload, and set_input_source
\* writes nothing.
C13_ForwardedInOrder ==
    /\ AllForwarded
         => /\ VidWritten(Len(hist)) = VideoPayloads(Len(hist))
            /\ AudWritten(Len(hist)) = AudioPayloads(Len(hist))
    /\ \A i \in 1..Len(hist) :
         /\ hist[i].op = "stream_recv"
              => /\ Len(hist[i].vid) + Len(hist[i].aud) <= 1
                 /\ Range(hist[i].vid) \cup Range(hist[i].aud) \subseteq {hist[i].unit.data}
                 /\ hist[i].vid # <<>> => IsVideoUnit(hist[i].unit)
                 /\ hist[i].aud # <<>> => IsAudioUnit(hist[i].unit)
         /\ hist[i].op = "set_input_source" => hist[i].vid = <<>> /\ hist[i].aud = <<>>

\* key frame A, an audio unit, delta frame B: vidsrc got A, B and audsrc the audio
C13_Witness ==
    /\ Len(hist) = 3
    /\ AllForwarded
    /\ hist[1].unit.kind = "Iframe"
    /\ hist[2].unit.kind = "Aac"
    /\ hist[3].unit.kind = "Pframe"
    /\ VidWritten(3) = <<A, B>>
    /\ AudWritten(3) = <<AudioData(160)>>

----------------------------------------------------------------------------
(* C14 *)

\* C14: a stream_recv of a unit that is neither Iframe, Pframe, Aac nor Adpcm
\* leaves video_format, audio_format, last_iframe and the installed launch string
\* unchanged, writes nothing to vidsrc or audsrc, does not ask should_stream(),
\* and returns keepStreaming = true.
C14_InfoIgnored ==
    [][(IsCall /\ LastCall'.op = "stream_recv"
          /\ ~IsVideoUnit(LastCall'.unit) /\ ~IsAudioUnit(LastCall'.unit))
         => /\ UNCHANGED <<video_format, audio_format, last_iframe, launch>>
            /\ LastCall'.installs = 0
            /\ LastCall'.vid = <<>> /\ LastCall'.aud = <<>>
            /\ ~LastCall'.consulted
            /\ LastCall'.ret = "true"]_vars

----------------------------------------------------------------------------
(* C15 *)

\* C15: the block size of the Adpcm format stored is the payload length of the
\* last ADPCM unit received modulo 65536, and that value is the block_align of
\* the installed launch string; an ADPCM unit whose payload length differs from
\* that of the unit before it by a non-zero multiple of 65536 rebuilds nothing.
C15_BlockSizeTruncated ==
    /\ Recvs # <<>>
         => /\ audio_format = [tag |-> "Adpcm", block |-> Last(AdpcmLens) % 65536]
            /\ launch.block_align = Last(AdpcmLens) % 65536
            /\ launch.block_align \in 0..65535
    /\ \A i \in 1..(Len(Recvs) - 1) :
         (AdpcmLens[i] # AdpcmLens[i + 1] /\ (AdpcmLens[i] - AdpcmLens[i + 1]) % 65536 = 0)
            => AdpcmRebuilds[i + 1] = 0

\* a unit of 160 bytes, then one of 65696 = 65536 + 160 bytes: one rebuild, and
\* block_align is 160
C15_Witness ==
    /\ Len(Recvs) = 2
    /\ AdpcmLens = <<160, 65696>>
    /\ AdpcmRebuilds = <<1, 0>>
    /\ audio_format.block = 160
    /\ launch.block_align = 160

----------------------------------------------------------------------------
(* C16 *)

\* the call of this step, if it is a write_last_iframe with no key frame retained,
\* fails with the no-data error, writes nothing and changes nothing of the sink
C16_Step ==
    (IsCall /\ LastCall'.op = "write_last_iframe" /\ ~has_last_iframe)
        => /\ LastCall'.ret = "no_data"
           /\ LastCall'.vid = <<>> /\ LastCall'.aud = <<>>
           /\ LastCall'.installs = 0
           /\ UNCHANGED <<video_format, audio_format, last_iframe, launch, vidsrc, audsrc>>

\* C16: write_last_iframe with no key frame retained fails with the no-data error,
\* writes nothing to vidsrc and leaves video_format, audio_format, last_iframe and
\* the installed launch string unchanged; once a key frame is retained a call of
\* write_last_iframe can succeed.
C16_NoDataBeforeKeyFrame ==
    /\ []((has_last_iframe /\ Len(hist) < window)
            => ENABLED (Replay /\ LastCall'.ret = "ok"))
    /\ [][C16_Step]_vars

\* a replay failed for want of data, a key frame was processed, and the next
\* replay wrote it
C16_Witness ==
    /\ Len(hist) = 3
    /\ hist[1].op = "write_last_iframe" /\ hist[1].ret = "no_data" /\ hist[1].vid = <<>>
    /\ IsKeyFrameOk(hist[2])
    /\ hist[3].op = "write_last_iframe" /\ hist[3].ret = "ok"
    /\ hist[3].vid = <<hist[2].unit.data>>

----------------------------------------------------------------------------
(* C17 *)

\* C17: at creation and after every call of stream_recv, write_last_iframe or
\* set_input_source, gone through or failed, the launch string installed in the
\* factory is the one apply_format builds from the stored video_format and
\* audio_format; at creation it is the one for (None, None).
C17_LaunchReflectsFormats ==
    /\ launch = apply_format(video_format, audio_format)
    /\ hist = <<>>
         => /\ video_format = None /\ audio_format = None
            /\ launch.parts[4] = "! fakesink"
            /\ Last(SubSeq(launch.parts, 1, Len(launch.parts) - 1)) = "! fakesink"

\* a key frame of another codec changed the video format and then failed to be
\* written: the launch string is the one of the new pair
C17_Witness ==
    /\ hist # <<>>
    /\ IsRecv(LastCall)
    /\ LastCall.ret = "err"
    /\ LastCall.installs = 1
    /\ video_format = H265
    /\ audio_format = Adpcm(160)
    /\ launch.parts[4] = "! rtph265pay name=pay0"
    /\ launch.block_align = 160

----------------------------------------------------------------------------
(* C18 *)

\* C18: when stream_recv returns keepStreaming = false, its unit is a key frame
\* that this call has written to vidsrc and retained: has_last_iframe holds and
\* last_iframe is the payload of that unit; should_stream() is asked only by a
\* call that has written and retained its key frame.
C18_StopAfterRetention ==
    (hist # <<>> /\ LastCall.op = "stream_recv")
        => /\ LastCall.ret = "false"
                => /\ LastCall.consulted
                   /\ LastCall.oracle = "false"
           /\ LastCall.consulted
                => /\ LastCall.unit.kind = "Iframe"
                   /\ LastCall.vid = <<LastCall.unit.data>>
                   /\ has_last_iframe
                   /\ last_iframe = LastCall.unit.data

\* key frame B arrived while A was retained and the oracle says stop: the call
\* returned false with B written and retained
C18_Witness ==
    /\ hist # <<>>
    /\ LastCall.op = "stream_recv"
    /\ LastCall.ret = "false"
    /\ LastCall.unit = Iframe("H265", B)
    /\ LastCall.vid = <<B>>
    /\ last_iframe = B

----------------------------------------------------------------------------
(* C19 *)

\* the call of this step, if it is a stream_recv that returns an error, leaves
\* last_iframe as it was and does not ask should_stream()
C19_Step ==
    (IsCall /\ LastCall'.op = "stream_recv" /\ LastCall'.ret = "err")
        => /\ last_iframe' = last_iframe
           /\ ~LastCall'.consulted

\* C19: a stream_recv that returns an error, at the selector step or at the write,
\* leaves the retained key frame as it was and does not consult the oracle; so
\* last_iframe is always the last key frame whose stream_recv returned Ok, and a
\* key frame whose write failed is never what write_last_iframe writes.
C19_FailedCallRetainsNothing ==
    /\ [](last_iframe = LastKeyFrame(Len(hist)))
    /\ [](\A i \in 1..Len(hist) :
            (hist[i].op = "write_last_iframe" /\ hist[i].vid # <<>>)
                => \E j \in 1..(i - 1) :
                      IsKeyFrameOk(hist[j]) /\ hist[i].vid = <<hist[j].unit.data>>)
    /\ [][C19_Step]_vars

\* key frame A was processed, the write of key frame C failed, and the replay
\* wrote A
C19_Witness ==
    /\ Len(hist) = 3
    /\ IsKeyFrameOk(hist[1]) /\ hist[1].unit.data = A
    /\ WriteFailed(hist[2]) /\ hist[2].unit = Iframe("H264", C) /\ hist[2].ret = "err"
    /\ hist[3].op = "write_last_iframe" /\ hist[3].vid = <<A>>
    /\ last_iframe = A

----------------------------------------------------------------------------
(* C20 *)

\* a step never sets a slot back to None; a call that is not a stream_recv leaves
\* both slots alone, a stream_recv of a video unit leaves audio_format alone and
\* a stream_recv of an audio unit leaves video_format alone
C20_Step ==
    /\ video_format # None => video_format' # None
    /\ audio_format # None => audio_format' # None
    /\ IsCall
         => /\ LastCall'.op # "stream_recv" => UNCHANGED <<video_format, audio_format>>
            /\ IsVideoUnit(LastCall'.unit) => audio_format' = audio_format
            /\ IsAudioUnit(LastCall'.unit) => video_format' = video_format

\* C20: video_format and audio_format are two independent latches: a video unit
\* never changes audio_format, an audio unit never changes video_format, no call
\* sets a slot back to None; and whichever slot is still None can become known
\* next while the other stays as it is, so that all four combinations of known
\* and unknown are reached, in either order.
C20_IndependentLatches ==
    /\ []((SelectorReady /\ Len(hist) < window)
            => /\ video_format = None
                    => ENABLED (Recv /\ video_format' # None /\ audio_format' = audio_format)
               /\ audio_format = None
                    => ENABLED (Recv /\ audio_format' # None /\ video_format' = video_format))
    /\ [][C20_Step]_vars

\* the audio format became known first, the video format second, and a replay
\* and nothing else followed: both slots are known
C20_Witness ==
    /\ Len(hist) = 3
    /\ IsRecv(hist[1]) /\ hist[1].unit.kind = "Aac" /\ hist[1].installs = 1
    /\ IsRecv(hist[2]) /\ hist[2].unit.kind = "Iframe" /\ hist[2].installs = 1
    /\ hist[3].op = "write_last_iframe"
    /\ video_format = H264
    /\ audio_format = Aac

====
